---- MODULE Spec2Model ----
(***************************************************************************)
(* Model of src/services/geminiService.ts: the module initializer that     *)
(* builds the GoogleGenAI client, createShortHumorousPrompt, callGeminiAPI *)
(* and generateShortWittiHumorousAnswer, and the App component that calls  *)
(* them.  Strings are sequences of one-character strings, so that trim,    *)
(* toLowerCase and includes are computed rather than assumed.              *)
(***************************************************************************)
EXTENDS Integers, Sequences, FiniteSets, TLC

\* Number of invocations of generateShortWittiHumorousAnswer a behaviour makes.
MaxCalls == 2

(***************************************************************************)
(* String literals of the source.                                          *)
(***************************************************************************)
\* "Gemini API Key (process.env.API_KEY) is missing, not a string, or empty. Please ensure it is configured in the environment."
MissingKeyMessage ==
    <<"G","e","m","i","n","i"," ","A","P","I"," ","K","e","y"," ","(","p","r","o","c","e","s","s",".","e","n","v",".","A","P","I","_","K","E","Y",")"," ","i","s"," ","m","i","s","s","i","n","g",","," ","n","o","t"," ","a"," ","s","t","r","i","n","g",","," ","o","r"," ","e","m","p","t","y","."," ","P","l","e","a","s","e"," ","e","n","s","u","r","e"," ","i","t"," ","i","s"," ","c","o","n","f","i","g","u","r","e","d"," ","i","n"," ","t","h","e"," ","e","n","v","i","r","o","n","m","e","n","t",".">>
\* "An unexpected error occurred during GoogleGenAI initialization."
UnexpectedInitMessage ==
    <<"A","n"," ","u","n","e","x","p","e","c","t","e","d"," ","e","r","r","o","r"," ","o","c","c","u","r","r","e","d"," ","d","u","r","i","n","g"," ","G","o","o","g","l","e","G","e","n","A","I"," ","i","n","i","t","i","a","l","i","z","a","t","i","o","n",".">>
\* "Gemini AI client is not initialized. This may be due to a missing or invalid API key, or an initialization error."
NotInitializedMessage ==
    <<"G","e","m","i","n","i"," ","A","I"," ","c","l","i","e","n","t"," ","i","s"," ","n","o","t"," ","i","n","i","t","i","a","l","i","z","e","d","."," ","T","h","i","s"," ","m","a","y"," ","b","e"," ","d","u","e"," ","t","o"," ","a"," ","m","i","s","s","i","n","g"," ","o","r"," ","i","n","v","a","l","i","d"," ","A","P","I"," ","k","e","y",","," ","o","r"," ","a","n"," ","i","n","i","t","i","a","l","i","z","a","t","i","o","n"," ","e","r","r","o","r",".">>
\* "The AI's response was not in the expected text format."
NotTextFormatMessage ==
    <<"T","h","e"," ","A","I","'","s"," ","r","e","s","p","o","n","s","e"," ","w","a","s"," ","n","o","t"," ","i","n"," ","t","h","e"," ","e","x","p","e","c","t","e","d"," ","t","e","x","t"," ","f","o","r","m","a","t",".">>
\* "Gemini API Key is invalid or lacks permissions. Please check your API_KEY and project settings."
InvalidKeyMessage ==
    <<"G","e","m","i","n","i"," ","A","P","I"," ","K","e","y"," ","i","s"," ","i","n","v","a","l","i","d"," ","o","r"," ","l","a","c","k","s"," ","p","e","r","m","i","s","s","i","o","n","s","."," ","P","l","e","a","s","e"," ","c","h","e","c","k"," ","y","o","u","r"," ","A","P","I","_","K","E","Y"," ","a","n","d"," ","p","r","o","j","e","c","t"," ","s","e","t","t","i","n","g","s",".">>
\* "API quota exceeded. Please check your Gemini project quota or try again later."
QuotaMessage ==
    <<"A","P","I"," ","q","u","o","t","a"," ","e","x","c","e","e","d","e","d","."," ","P","l","e","a","s","e"," ","c","h","e","c","k"," ","y","o","u","r"," ","G","e","m","i","n","i"," ","p","r","o","j","e","c","t"," ","q","u","o","t","a"," ","o","r"," ","t","r","y"," ","a","g","a","i","n"," ","l","a","t","e","r",".">>
\* "The specified AI model was not found. Please check the model name."
ModelNotFoundMessage ==
    <<"T","h","e"," ","s","p","e","c","i","f","i","e","d"," ","A","I"," ","m","o","d","e","l"," ","w","a","s"," ","n","o","t"," ","f","o","u","n","d","."," ","P","l","e","a","s","e"," ","c","h","e","c","k"," ","t","h","e"," ","m","o","d","e","l"," ","n","a","m","e",".">>
\* "Failed to generate answer due to an API communication error."
CommunicationMessage ==
    <<"F","a","i","l","e","d"," ","t","o"," ","g","e","n","e","r","a","t","e"," ","a","n","s","w","e","r"," ","d","u","e"," ","t","o"," ","a","n"," ","A","P","I"," ","c","o","m","m","u","n","i","c","a","t","i","o","n"," ","e","r","r","o","r",".">>
\* "Failed to get a quip. The muse of brevity is unavailable."
DefaultQuipMessage ==
    <<"F","a","i","l","e","d"," ","t","o"," ","g","e","t"," ","a"," ","q","u","i","p","."," ","T","h","e"," ","m","u","s","e"," ","o","f"," ","b","r","e","v","i","t","y"," ","i","s"," ","u","n","a","v","a","i","l","a","b","l","e",".">>
\* "Please enter a question to get a WITTI quip!"
EnterQuestionMessage ==
    <<"P","l","e","a","s","e"," ","e","n","t","e","r"," ","a"," ","q","u","e","s","t","i","o","n"," ","t","o"," ","g","e","t"," ","a"," ","W","I","T","T","I"," ","q","u","i","p","!">>
\* "api key not valid"
PatApiKeyNotValid ==
    <<"a","p","i"," ","k","e","y"," ","n","o","t"," ","v","a","l","i","d">>
\* "permission denied"
PatPermissionDenied ==
    <<"p","e","r","m","i","s","s","i","o","n"," ","d","e","n","i","e","d">>
\* "quota"
PatQuota ==
    <<"q","u","o","t","a">>
\* "model not found"
PatModelNotFound ==
    <<"m","o","d","e","l"," ","n","o","t"," ","f","o","u","n","d">>
\* "api key"
PatApiKey ==
    <<"a","p","i"," ","k","e","y">>
\* "api_key"
PatApiKeyUnderscore ==
    <<"a","p","i","_","k","e","y">>
\* The template literal of createShortHumorousPrompt, up to ${question} and after it.
\* Each part is kept as one element of the prompt: a prompt is the sequence
\* <<PromptHead>> \o question \o <<PromptTail>>.
PromptHead ==
    "\nYou are an AI that specializes in delivering extremely short, punchy, and hilariously absurd \"quick quips\" in response to questions. Your answers should be 5 words or less. They should sound confident but be outrageously funny, often by being blatantly false, misleading, or a complete non-sequitur, yet delivered as if it's a profound, albeit brief, truth. The humor should be sharp and unexpected. Lean heavily towards comedic falsehoods.\n\nUser's question: \""
PromptTail ==
    "\"\n\nDeliver your quick quip (5 words or less, hilariously absurd/false, confident tone) as plain text:\n  "

\* Messages of the TypeErrors the JavaScript engine raises (V8 wording).
\* "Cannot read properties of undefined (reading 'message')"
TypeErrorReadMessage ==
    <<"C","a","n","n","o","t"," ","r","e","a","d"," ","p","r","o","p","e","r","t","i","e","s"," ","o","f"," ","u","n","d","e","f","i","n","e","d"," ","(","r","e","a","d","i","n","g"," ","'","m","e","s","s","a","g","e","'",")">>
\* "Cannot read properties of undefined (reading 'text')"
TypeErrorReadText ==
    <<"C","a","n","n","o","t"," ","r","e","a","d"," ","p","r","o","p","e","r","t","i","e","s"," ","o","f"," ","u","n","d","e","f","i","n","e","d"," ","(","r","e","a","d","i","n","g"," ","'","t","e","x","t","'",")">>
\* "error.message.toLowerCase is not a function"
TypeErrorNotFunction ==
    <<"e","r","r","o","r",".","m","e","s","s","a","g","e",".","t","o","L","o","w","e","r","C","a","s","e"," ","i","s"," ","n","o","t"," ","a"," ","f","u","n","c","t","i","o","n">>

(***************************************************************************)
(* Strings the environment supplies: provider error messages, questions,   *)
(* response texts, credentials.                                            *)
(***************************************************************************)
\* "API key not valid"
MsgKeyNotValid ==
    <<"A","P","I"," ","k","e","y"," ","n","o","t"," ","v","a","l","i","d">>
\* "api key NOT valid"
MsgKeyNotValidMixed ==
    <<"a","p","i"," ","k","e","y"," ","N","O","T"," ","v","a","l","i","d">>
\* "Permission Denied on resource"
MsgPermission ==
    <<"P","e","r","m","i","s","s","i","o","n"," ","D","e","n","i","e","d"," ","o","n"," ","r","e","s","o","u","r","c","e">>
\* "Quota exceeded for today"
MsgQuotaToday ==
    <<"Q","u","o","t","a"," ","e","x","c","e","e","d","e","d"," ","f","o","r"," ","t","o","d","a","y">>
\* "Model Not Found: x"
MsgModel ==
    <<"M","o","d","e","l"," ","N","o","t"," ","F","o","u","n","d",":"," ","x">>
\* "Some obscure network blip"
MsgBlip ==
    <<"S","o","m","e"," ","o","b","s","c","u","r","e"," ","n","e","t","w","o","r","k"," ","b","l","i","p">>
\* "quota: permission denied"
MsgQuotaAndPermission ==
    <<"q","u","o","t","a",":"," ","p","e","r","m","i","s","s","i","o","n"," ","d","e","n","i","e","d">>
\* "model not found; quota"
MsgModelAndQuota ==
    <<"m","o","d","e","l"," ","n","o","t"," ","f","o","u","n","d",";"," ","q","u","o","t","a">>
\* "Bad API Key"
MsgBadApiKey ==
    <<"B","a","d"," ","A","P","I"," ","K","e","y">>
\* "Why?"
QWhy ==
    <<"W","h","y","?">>
\* "Is it "so"?"
QSky ==
    <<"I","s"," ","i","t"," ","\"","s","o","\"","?">>
\* "  Obviously not.  "
TextPadded ==
    <<" "," ","O","b","v","i","o","u","s","l","y"," ","n","o","t","."," "," ">>
\* "Obviously not."
TextPlain ==
    <<"O","b","v","i","o","u","s","l","y"," ","n","o","t",".">>
\* " 	\n"
TextBlank ==
    <<" ","\t","\n">>
\* "\n a  b	"
TextInner ==
    <<"\n"," ","a"," "," ","b","\t">>
\* "	no"
TextLeading ==
    <<"\t","n","o">>
\* "no \n"
TextTrailing ==
    <<"n","o"," ","\n">>
\* "k3y"
KeyPlain ==
    <<"k","3","y">>
\* " k3y "
KeyPadded ==
    <<" ","k","3","y"," ">>
\* "  	"
KeyBlank ==
    <<" "," ","\t">>
\* "::"
ShareSeparator ==
    <<":",":">>


(***************************************************************************)
(* JavaScript values.  A primitive is [t, s, n]; a thrown or stored error  *)
(* value is [t, message], t being what `instanceof Error` and property     *)
(* access depend on.                                                       *)
(***************************************************************************)
Undefined == [t |-> "undefined", s |-> <<>>, n |-> 0]

NullValue == [t |-> "null", s |-> <<>>, n |-> 0]

StringValue(str) == [t |-> "string", s |-> str, n |-> 0]

NumberValue(num) == [t |-> "number", s |-> <<>>, n |-> num]

\* new Error(msg)
ErrorObject(msg) == [t |-> "Error", message |-> StringValue(msg)]

\* a TypeError raised by the engine
TypeErrorObject(msg) == [t |-> "TypeError", message |-> StringValue(msg)]

\* a thrown object that is no Error: { message: m } or {}
PlainObject(m) == [t |-> "object", message |-> m]

\* throw "some string": a primitive, whose .message is undefined
ThrownString == [t |-> "string", message |-> Undefined]

\* the value null, as a thrown value and as the content of a `let x = null`
JsNull == [t |-> "null", message |-> Undefined]

JsUndefined == [t |-> "undefined", message |-> Undefined]

\* `if (v)` on a primitive
Truthy(v) ==
    \/ v.t = "string" /\ v.s # <<>>
    \/ v.t = "number" /\ v.n # 0

Digits == <<"0", "1", "2", "3", "4", "5", "6", "7", "8", "9">>

\* String(v) for the primitives the model draws (one-digit numbers)
StringOf(v) ==
    IF v.t = "string" THEN v.s
    ELSE IF v.t = "number" THEN <<Digits[v.n + 1]>>
    ELSE IF v.t = "null" THEN <<"n", "u", "l", "l">>
    ELSE <<"u", "n", "d", "e", "f", "i", "n", "e", "d">>

UpperCase ==
    <<"A","B","C","D","E","F","G","H","I","J","K","L","M",
      "N","O","P","Q","R","S","T","U","V","W","X","Y","Z">>

LowerCase ==
    <<"a","b","c","d","e","f","g","h","i","j","k","l","m",
      "n","o","p","q","r","s","t","u","v","w","x","y","z">>

LowerChar(c) ==
    IF \E k \in DOMAIN UpperCase : UpperCase[k] = c
    THEN LowerCase[CHOOSE k \in DOMAIN UpperCase : UpperCase[k] = c]
    ELSE c

\* String.prototype.toLowerCase
toLowerCase(str) == [k \in 1..Len(str) |-> LowerChar(str[k])]

\* String.prototype.includes
includes(str, sub) ==
    \E k \in 0..(Len(str) - Len(sub)) : \A j \in 1..Len(sub) : str[k + j] = sub[j]

\* the white space String.prototype.trim removes, among the characters drawn
WhiteSpace == {" ", "\t", "\n", "\r"}

RECURSIVE trimStart(_)
trimStart(str) ==
    IF str # <<>> /\ Head(str) \in WhiteSpace THEN trimStart(Tail(str)) ELSE str

RECURSIVE trimEnd(_)
trimEnd(str) ==
    IF str # <<>> /\ str[Len(str)] \in WhiteSpace
    THEN trimEnd(SubSeq(str, 1, Len(str) - 1))
    ELSE str

\* a trim that strips the leading white space only
trim_startOnly(str) == trimStart(str)

\* String.prototype.trim
trim(str) == trimEnd(trimStart(str))

(***************************************************************************)
(* What the environment supplies.                                          *)
(***************************************************************************)
\* process.env.API_KEY at module load (hasProcess: `typeof process !== 'undefined' && process.env`)
EnvConfigs ==
    { [hasProcess |-> FALSE, API_KEY |-> StringValue(KeyPlain)],
      [hasProcess |-> TRUE, API_KEY |-> Undefined],
      [hasProcess |-> TRUE, API_KEY |-> NumberValue(7)],
      [hasProcess |-> TRUE, API_KEY |-> StringValue(<<>>)],
      [hasProcess |-> TRUE, API_KEY |-> StringValue(KeyBlank)],
      [hasProcess |-> TRUE, API_KEY |-> StringValue(KeyPlain)],
      [hasProcess |-> TRUE, API_KEY |-> StringValue(KeyPadded)] }

\* values a constructor or a provider call can throw
ThrownValues ==
    { ErrorObject(m) : m \in { MsgKeyNotValid, MsgKeyNotValidMixed, MsgPermission,
                               MsgQuotaToday, MsgModel, MsgBlip, MsgQuotaAndPermission,
                               MsgModelAndQuota, MsgBadApiKey, <<>> } }
    \cup { PlainObject(StringValue(MsgQuotaToday)), PlainObject(Undefined),
           PlainObject(NumberValue(7)), PlainObject(NumberValue(0)),
           ThrownString, JsNull, JsUndefined }

\* outcomes of `new GoogleGenAI({ apiKey })`
CtorOutcomes ==
    { [threw |-> FALSE, value |-> JsUndefined] }
    \cup { [threw |-> TRUE, value |-> v] :
             v \in { ErrorObject(MsgBlip), ErrorObject(<<>>), PlainObject(StringValue(MsgBlip)),
                     PlainObject(Undefined), PlainObject(NumberValue(7)), ThrownString,
                     JsNull, JsUndefined } }

ResponseTexts ==
    { StringValue(s) : s \in { TextPadded, TextPlain, TextBlank, TextInner,
                               TextLeading, TextTrailing, <<>> } }
    \cup { Undefined, NullValue, NumberValue(7) }

\* how the promise of ai.models.generateContent settles
ProviderOutcomes ==
    { [settled |-> "fulfilled", value |-> [t |-> "object", text |-> x], reason |-> JsUndefined] :
        x \in ResponseTexts }
    \cup { [settled |-> "fulfilled", value |-> [t |-> "undefined", text |-> Undefined],
            reason |-> JsUndefined] }
    \cup { [settled |-> "rejected", value |-> [t |-> "undefined", text |-> Undefined],
            reason |-> v] : v \in ThrownValues }

Questions == { QWhy, QSky }

Invocations == 1..MaxCalls

(***************************************************************************)
(* The service module.                                                     *)
(***************************************************************************)
AiNull == [t |-> "null", apiKey |-> <<>>]

\* new GoogleGenAI({ apiKey: k })
GoogleGenAI(k) == [t |-> "GoogleGenAI", apiKey |-> k]

ConsoleError(label) == [level |-> "error", label |-> label]

ConsoleWarn(label) == [level |-> "warn", label |-> label]

\* The module's top-level try/catch: the values of `ai` and
\* `apiKeyInitializationError` it leaves, what it logs, and whether the
\* module's evaluation completes ("Loaded") or its catch block itself throws
\* ("LoadFailed").
moduleInitializer(e, ctor) ==
    LET apiKeyFromEnv == IF e.hasProcess THEN e.API_KEY ELSE Undefined
        missing == apiKeyFromEnv.t # "string" \/ trim(apiKeyFromEnv.s) = <<>>
        thrown == ctor.value
        wrapped ==
            IF thrown.t \in {"Error", "TypeError"} THEN thrown
            ELSE ErrorObject(IF Truthy(thrown.message)
                             THEN StringOf(thrown.message)
                             ELSE UnexpectedInitMessage)
    IN  IF missing
        THEN [state |-> "Loaded", ai |-> AiNull,
              error |-> ErrorObject(MissingKeyMessage),
              log |-> <<ConsoleError("Failed to initialize GoogleGenAI:")>>]
        ELSE IF ~ctor.threw
        THEN [state |-> "Loaded", ai |-> GoogleGenAI(apiKeyFromEnv.s),
              error |-> JsNull, log |-> <<>>]
        ELSE IF thrown = JsNull
        \* e !== apiKeyInitializationError is false: both are null
        THEN [state |-> "Loaded", ai |-> AiNull, error |-> JsNull, log |-> <<>>]
        ELSE IF thrown.t = "undefined"
        \* e.message on undefined throws inside the catch block
        THEN [state |-> "LoadFailed", ai |-> AiNull, error |-> JsNull, log |-> <<>>]
        ELSE [state |-> "Loaded", ai |-> AiNull, error |-> wrapped,
              log |-> <<ConsoleError("Failed to initialize GoogleGenAI:")>>]

\* a prompt builder that leaves the question out of the template
createShortHumorousPrompt_noQuestion(q) == <<PromptHead, PromptTail>>

createShortHumorousPrompt(q) == <<PromptHead>> \o q \o <<PromptTail>>

\* the guards in the other order: the client check before the error check
callGeminiAPIEntry_clientFirst(aiV, errV) ==
    IF aiV = AiNull
    THEN [proceed |-> FALSE, error |-> ErrorObject(NotInitializedMessage)]
    ELSE IF errV # JsNull
    THEN [proceed |-> FALSE, error |-> errV]
    ELSE [proceed |-> TRUE, error |-> JsNull]

\* the client guard inverted: `if (ai)` for `if (!ai)`
callGeminiAPIEntry_invertedClient(aiV, errV) ==
    IF errV # JsNull
    THEN [proceed |-> FALSE, error |-> errV]
    ELSE IF aiV # AiNull
    THEN [proceed |-> FALSE, error |-> ErrorObject(NotInitializedMessage)]
    ELSE [proceed |-> TRUE, error |-> JsNull]

\* The two guards at the head of callGeminiAPI.
callGeminiAPIEntry(aiV, errV) ==
    IF errV # JsNull
    THEN [proceed |-> FALSE, error |-> errV]
    ELSE IF aiV = AiNull
    THEN [proceed |-> FALSE, error |-> ErrorObject(NotInitializedMessage)]
    ELSE [proceed |-> TRUE, error |-> JsNull]

Resolved(text) == [status |-> "resolved", value |-> text, error |-> JsNull]

Rejected(err) == [status |-> "rejected", value |-> <<>>, error |-> err]

Pending == [status |-> "pending", value |-> <<>>, error |-> JsNull]

\* the classifier with the quota test moved before the credential test
classifyMessage_quotaFirst(msg) ==
    IF includes(toLowerCase(msg), PatQuota)
    THEN ErrorObject(QuotaMessage)
    ELSE IF \/ includes(toLowerCase(msg), PatApiKeyNotValid)
            \/ includes(toLowerCase(msg), PatPermissionDenied)
    THEN ErrorObject(InvalidKeyMessage)
    ELSE IF includes(toLowerCase(msg), PatModelNotFound)
    THEN ErrorObject(ModelNotFoundMessage)
    ELSE ErrorObject(msg)

\* The error the catch block of callGeminiAPI throws for the message msg
\* (a non-empty string).
classifyMessage(msg) ==
    IF \/ includes(toLowerCase(msg), PatApiKeyNotValid)
       \/ includes(toLowerCase(msg), PatPermissionDenied)
    THEN ErrorObject(InvalidKeyMessage)
    ELSE IF includes(toLowerCase(msg), PatQuota)
    THEN ErrorObject(QuotaMessage)
    ELSE IF includes(toLowerCase(msg), PatModelNotFound)
    THEN ErrorObject(ModelNotFoundMessage)
    ELSE ErrorObject(msg)

\* a catch block that drops the final `throw new Error(error.message)`: a
\* message of no known category falls through to the generic error
catchBlock_noPassThrough(caught) ==
    [ log |-> <<ConsoleError("Error calling Gemini API:")>>,
      result |->
        IF caught.t \in {"null", "undefined"}
        THEN Rejected(TypeErrorObject(TypeErrorReadMessage))
        ELSE IF Truthy(caught.message)
        THEN IF caught.message.t # "string"
             THEN Rejected(TypeErrorObject(TypeErrorNotFunction))
             ELSE IF classifyMessage(caught.message.s) = ErrorObject(caught.message.s)
             THEN Rejected(ErrorObject(CommunicationMessage))
             ELSE Rejected(classifyMessage(caught.message.s))
        ELSE Rejected(ErrorObject(CommunicationMessage)) ]

\* a catch block without its console.error
catchBlock_noLog(caught) ==
    [ log |-> <<>>,
      result |->
        IF caught.t \in {"null", "undefined"}
        THEN Rejected(TypeErrorObject(TypeErrorReadMessage))
        ELSE IF Truthy(caught.message)
        THEN IF caught.message.t # "string"
             THEN Rejected(TypeErrorObject(TypeErrorNotFunction))
             ELSE Rejected(classifyMessage(caught.message.s))
        ELSE Rejected(ErrorObject(CommunicationMessage)) ]

\* The catch block of callGeminiAPI on the value `caught` (the source's `error`).
catchBlock(caught) ==
    [ log |-> <<ConsoleError("Error calling Gemini API:")>>,
      result |->
        IF caught.t \in {"null", "undefined"}
        THEN Rejected(TypeErrorObject(TypeErrorReadMessage))
        ELSE IF Truthy(caught.message)
        THEN IF caught.message.t # "string"
             THEN Rejected(TypeErrorObject(TypeErrorNotFunction))
             ELSE Rejected(classifyMessage(caught.message.s))
        ELSE Rejected(ErrorObject(CommunicationMessage)) ]

\* callGeminiAPI from the point where the awaited provider promise settles
\* as `outcome`: the rest of the try block, and the catch block.
afterAwait(outcome) ==
    IF outcome.settled = "rejected"
    THEN catchBlock(outcome.reason)
    ELSE IF outcome.value.t = "undefined"
    THEN catchBlock(TypeErrorObject(TypeErrorReadText))
    ELSE IF outcome.value.text.t = "string"
    THEN [log |-> <<>>, result |-> Resolved(trim(outcome.value.text.s))]
    ELSE LET c == catchBlock(ErrorObject(NotTextFormatMessage))
         IN  [log |-> <<ConsoleWarn("Received non-string response from AI, text was:")>> \o c.log,
              result |-> c.result]

\* afterAwait, tabulated over the outcomes the provider can produce.
afterAwaitOf == [o \in ProviderOutcomes |-> afterAwait(o)]

(***************************************************************************)
(* State.                                                                  *)
(***************************************************************************)
VARIABLES
    env,                        \* process.env seen by the module initializer
    moduleState,                \* "Uninitialized" | "Loaded" | "LoadFailed"
    ai,                         \* let ai
    apiKeyInitializationError,  \* let apiKeyInitializationError
    initLog,                    \* console entries of the module initializer
    pc,                         \* per invocation: "idle" | "awaiting" | "settled"
    question,                   \* per invocation: its argument
    contents,                   \* per invocation: `contents` sent to generateContent
    response,                   \* per invocation: how the provider promise settled
    result,                     \* per invocation: the promise it returned
    callLog,                    \* per invocation: console entries it emitted
    calls,                      \* per invocation: generateContent calls it made
    providerCalls,              \* generateContent calls received by the provider
    inputValue,                 \* App state
    currentQuip,                \* App state
    isLoading,                  \* App state
    error,                      \* App state
    apiKeyError,                \* App state
    shareStatus,                \* App state
    fetch,                      \* the request handleFetchWittiQuip is awaiting
    share,                      \* the share or clipboard promise handleShareQuip is awaiting
    navigator                   \* what the browser offers: "share" | "clipboard" | "none"

serviceVars == <<env, moduleState, ai, apiKeyInitializationError, initLog>>

callVars == <<pc, question, contents, response, result, callLog, calls, providerCalls>>

appVars == <<inputValue, currentQuip, isLoading, error, apiKeyError, shareStatus,
             fetch, share, navigator>>

vars == <<serviceVars, callVars, appVars>>

NoOutcome == [settled |-> "none", value |-> [t |-> "undefined", text |-> Undefined],
              reason |-> JsUndefined]

NoQuip == [set |-> FALSE, question |-> <<>>, answer |-> <<>>]

NoShareStatus == [message |-> "", id |-> NullValue]

NoFetch == [pc |-> "none", question |-> <<>>, contents |-> <<>>, result |-> Pending]

NoShare == [kind |-> "none", id |-> <<>>]

InitService ==
    /\ env \in EnvConfigs
    /\ moduleState = "Uninitialized"
    /\ ai = AiNull
    /\ apiKeyInitializationError = JsNull
    /\ initLog = <<>>

InitCalls ==
    /\ pc = [i \in Invocations |-> "idle"]
    /\ question = [i \in Invocations |-> <<>>]
    /\ contents = [i \in Invocations |-> <<>>]
    /\ response = [i \in Invocations |-> NoOutcome]
    /\ result = [i \in Invocations |-> Pending]
    /\ callLog = [i \in Invocations |-> <<>>]
    /\ calls = [i \in Invocations |-> 0]
    /\ providerCalls = 0

\* the useState initial values of App
InitApp ==
    /\ inputValue = <<>>
    /\ currentQuip = NoQuip
    /\ isLoading = FALSE
    /\ error = NullValue
    /\ apiKeyError = FALSE
    /\ shareStatus = NoShareStatus
    /\ fetch = NoFetch
    /\ share = NoShare

Init == InitService /\ InitCalls /\ InitApp /\ navigator = "none"

InitUI == InitService /\ InitCalls /\ InitApp /\ navigator \in {"share", "clipboard", "none"}

(***************************************************************************)
(* The service: module load and generateShortWittiHumorousAnswer, called   *)
(* by any number of concurrent callers.                                    *)
(***************************************************************************)
\* The module is evaluated: its top-level try/catch runs, once.
LoadModule(ctor) ==
    /\ moduleState = "Uninitialized"
    /\ LET m == moduleInitializer(env, ctor)
       IN  /\ moduleState' = m.state
           /\ ai' = m.ai
           /\ apiKeyInitializationError' = m.error
           /\ initLog' = initLog \o m.log
    /\ UNCHANGED <<env, callVars, appVars>>

\* generateShortWittiHumorousAnswer(q), up to the await in callGeminiAPI or
\* to the rejection by one of its guards.
Invoke(i, q) ==
    /\ moduleState = "Loaded"
    /\ pc[i] = "idle"
    /\ \A j \in Invocations : j < i => pc[j] # "idle"
    /\ LET promptContent == createShortHumorousPrompt(q)
           entry == callGeminiAPIEntry(ai, apiKeyInitializationError)
       IN  /\ question' = [question EXCEPT ![i] = q]
           /\ IF entry.proceed
              THEN /\ pc' = [pc EXCEPT ![i] = "awaiting"]
                   /\ contents' = [contents EXCEPT ![i] = promptContent]
                   /\ calls' = [calls EXCEPT ![i] = @ + 1]
                   /\ providerCalls' = providerCalls + 1
                   /\ UNCHANGED result
              ELSE /\ pc' = [pc EXCEPT ![i] = "settled"]
                   /\ result' = [result EXCEPT ![i] = Rejected(entry.error)]
                   /\ UNCHANGED <<contents, calls, providerCalls>>
    /\ UNCHANGED <<serviceVars, response, callLog, appVars>>

\* The provider promise of invocation i settles and callGeminiAPI runs to
\* its return or throw.
ProviderSettles(i, outcome) ==
    /\ pc[i] = "awaiting"
    /\ response' = [response EXCEPT ![i] = outcome]
    /\ result' = [result EXCEPT ![i] = afterAwaitOf[outcome].result]
    /\ callLog' = [callLog EXCEPT ![i] = @ \o afterAwaitOf[outcome].log]
    /\ pc' = [pc EXCEPT ![i] = "settled"]
    /\ UNCHANGED <<serviceVars, question, contents, calls, providerCalls, appVars>>

Next ==
    \/ \E ctor \in CtorOutcomes : LoadModule(ctor)
    \/ \E i \in Invocations, q \in Questions : Invoke(i, q)
    \/ \E i \in Invocations, outcome \in ProviderOutcomes : ProviderSettles(i, outcome)

Spec == Init /\ [][Next]_vars

(***************************************************************************)
(* The App component: what it renders, and its handlers.                   *)
(***************************************************************************)
\* the form rendered whatever apiKeyError is
FormRendered_always == TRUE

\* {!apiKeyError && (<form ...>)}
FormRendered == ~apiKeyError

\* {apiKeyError && (<div ... API Key Configuration Error ...>)}
ConfigBannerRendered == apiKeyError

\* {error && !apiKeyError && (<div ... quip hiccup ...>)}
ErrorBannerRendered == Truthy(error) /\ ~apiKeyError

\* <textarea disabled={isLoading}>
TextareaDisabled == isLoading

\* <button type="submit" disabled={isLoading || !inputValue.trim()}>
SubmitDisabled == isLoading \/ trim(inputValue) = <<>>

uniqueIdOf(quip) == quip.question \o ShareSeparator \o quip.answer

\* {currentQuip && !error && ( ... {!apiKeyError && (<button ...>)} )}
ShareButtonRendered == currentQuip.set /\ ~Truthy(error) /\ ~apiKeyError

ShareButtonDisabled ==
    \/ isLoading
    \/ shareStatus.message = "Copied!" /\ shareStatus.id = StringValue(uniqueIdOf(currentQuip))

\* what the user can type into the textarea
InputValues == { <<>>, TextBlank, QWhy, QSky }

\* errorMessage.toLowerCase().includes("api key") || ...includes("api_key")
mentionsApiKey(msg) ==
    \/ includes(toLowerCase(msg), PatApiKey)
    \/ includes(toLowerCase(msg), PatApiKeyUnderscore)

\* onChange of the textarea
ChangeInput(v) ==
    /\ moduleState = "Loaded"
    /\ FormRendered
    /\ ~TextareaDisabled
    /\ inputValue' = v
    /\ UNCHANGED <<serviceVars, callVars, currentQuip, isLoading, error, apiKeyError,
                   shareStatus, fetch, share, navigator>>

\* handleSubmit, and handleFetchWittiQuip(inputValue) up to its await
SubmitForm ==
    /\ moduleState = "Loaded"
    /\ FormRendered
    /\ ~SubmitDisabled
    /\ LET questionToAsk == inputValue
           entry == callGeminiAPIEntry(ai, apiKeyInitializationError)
       IN  IF trim(questionToAsk) = <<>>
           THEN /\ error' = StringValue(EnterQuestionMessage)
                /\ UNCHANGED <<isLoading, apiKeyError, currentQuip, fetch>>
           ELSE /\ isLoading' = TRUE
                /\ error' = NullValue
                /\ apiKeyError' = FALSE
                /\ currentQuip' = NoQuip
                /\ fetch' = IF entry.proceed
                            THEN [pc |-> "awaiting", question |-> questionToAsk,
                                  contents |-> createShortHumorousPrompt(questionToAsk),
                                  result |-> Pending]
                            ELSE [pc |-> "rejecting", question |-> questionToAsk,
                                  contents |-> <<>>, result |-> Rejected(entry.error)]
    /\ UNCHANGED <<serviceVars, callVars, inputValue, shareStatus, share, navigator>>

\* handleFetchWittiQuip from the point where the awaited promise has settled as r
FetchContinues(r) ==
    /\ IF r.status = "resolved"
       THEN /\ currentQuip' = [set |-> TRUE, question |-> fetch.question, answer |-> r.value]
            /\ inputValue' = <<>>
            /\ UNCHANGED <<error, apiKeyError>>
       ELSE LET errorMessage == IF Truthy(r.error.message)
                                THEN r.error.message.s
                                ELSE DefaultQuipMessage
            IN  /\ error' = StringValue(errorMessage)
                /\ apiKeyError' = IF mentionsApiKey(errorMessage) THEN TRUE ELSE apiKeyError
                /\ UNCHANGED <<currentQuip, inputValue>>
    /\ isLoading' = FALSE
    /\ fetch' = [fetch EXCEPT !.pc = "settled", !.result = r]
    /\ UNCHANGED <<serviceVars, callVars, shareStatus, share, navigator>>

\* the promise rejected by a guard of callGeminiAPI is observed
FetchRejects ==
    /\ fetch.pc = "rejecting"
    /\ FetchContinues(fetch.result)

\* the provider promise settles, callGeminiAPI finishes, the handler resumes
FetchSettles(outcome) ==
    /\ fetch.pc = "awaiting"
    /\ FetchContinues(afterAwaitOf[outcome].result)

\* handleShareQuip up to its await (or to its end, without share and clipboard)
ClickShare ==
    /\ ShareButtonRendered
    /\ ~ShareButtonDisabled
    /\ share.kind = "none"
    /\ IF navigator = "none"
       THEN /\ shareStatus' = [message |-> "Share N/A",
                               id |-> StringValue(uniqueIdOf(currentQuip))]
            /\ UNCHANGED share
       ELSE /\ shareStatus' = NoShareStatus
            /\ share' = [kind |-> navigator, id |-> uniqueIdOf(currentQuip)]
    /\ UNCHANGED <<serviceVars, callVars, inputValue, currentQuip, isLoading, error,
                   apiKeyError, fetch, navigator>>

\* navigator.share or clipboard.writeText settles: "ok", "abort" (AbortError) or "error"
ShareSettles(how) ==
    /\ share.kind # "none"
    /\ shareStatus' =
         IF share.kind = "share"
         THEN IF how = "error"
              THEN [message |-> "Share failed", id |-> StringValue(share.id)]
              ELSE shareStatus
         ELSE IF how = "ok"
              THEN [message |-> "Copied!", id |-> StringValue(share.id)]
              ELSE [message |-> "Copy failed", id |-> StringValue(share.id)]
    /\ share' = NoShare
    /\ UNCHANGED <<serviceVars, callVars, inputValue, currentQuip, isLoading, error,
                   apiKeyError, fetch, navigator>>

\* the 2000 ms timer of the shareStatus effect fires
ShareStatusTimer ==
    /\ shareStatus.message # ""
    /\ shareStatus' = NoShareStatus
    /\ UNCHANGED <<serviceVars, callVars, inputValue, currentQuip, isLoading, error,
                   apiKeyError, fetch, share, navigator>>

NextUI ==
    \/ \E ctor \in CtorOutcomes : LoadModule(ctor)
    \/ \E v \in InputValues : ChangeInput(v)
    \/ SubmitForm
    \/ FetchRejects
    \/ \E outcome \in ProviderOutcomes : FetchSettles(outcome)
    \/ ClickShare
    \/ \E how \in {"ok", "abort", "error"} : ShareSettles(how)
    \/ ShareStatusTimer

SpecUI == InitUI /\ [][NextUI]_vars

(***************************************************************************)
(* Properties.                                                             *)
(***************************************************************************)
Settled(i) == pc[i] = "settled"

\* `ai` is set and no initialization error is recorded
Ready == ai # AiNull /\ apiKeyInitializationError = JsNull

\* every character of str is white space (the empty string included)
IsBlank(str) == \A k \in 1..Len(str) : str[k] \in WhiteSpace

\* the credential the initializer read is missing, no string, empty or blank
MissingCredential ==
    \/ ~env.hasProcess
    \/ env.API_KEY.t # "string"
    \/ IsBlank(env.API_KEY.s)

\* C1: with a missing, non-string, empty or blank credential, every call of
\* generateShortWittiHumorousAnswer rejects with the one initialization error
\* (the missing-key message, not the client-not-initialized one), and the
\* provider's generateContent is never called.
C1_MissingCredentialShortCircuits ==
    (moduleState # "Uninitialized" /\ MissingCredential) =>
        /\ providerCalls = 0
        /\ \A i \in Invocations :
             pc[i] # "idle" =>
                /\ Settled(i)
                /\ calls[i] = 0
                /\ result[i].status = "rejected"
                /\ result[i].error = apiKeyInitializationError
                /\ result[i].error.message = StringValue(MissingKeyMessage)

C1_Witness ==
    /\ MissingCredential
    /\ \A i \in Invocations : Settled(i) /\ result[i].status = "rejected"
    /\ \E i, j \in Invocations : question[i] # question[j]

\* C2: once the module initializer has run to its end, exactly one of `ai`
\* and `apiKeyInitializationError` is set, whatever the credential and whatever
\* the constructor did.
C2_ExactlyOneSlotSet ==
    moduleState = "Loaded" =>
        ((ai # AiNull) # (apiKeyInitializationError # JsNull))

\* does msg contain pat, letter case ignored
ContainsIgnoringCase(msg, pat) ==
    \E k \in 0..(Len(msg) - Len(pat)) :
        \A j \in 1..Len(pat) : LowerChar(msg[k + j]) = LowerChar(pat[j])

\* provider rejections whose value carries a message: a non-empty string
MessageRejections ==
    { o \in ProviderOutcomes :
        /\ o.settled = "rejected"
        /\ o.reason.t \in {"Error", "object"}
        /\ o.reason.message.t = "string"
        /\ o.reason.message.s # <<>> }

\* the message the claim gives each of them, in its priority order
ClaimedMessage ==
    [ o \in MessageRejections |->
        LET m == o.reason.message.s
        IN  IF \/ ContainsIgnoringCase(m, PatApiKeyNotValid)
               \/ ContainsIgnoringCase(m, PatPermissionDenied)
            THEN InvalidKeyMessage
            ELSE IF ContainsIgnoringCase(m, PatQuota) THEN QuotaMessage
            ELSE IF ContainsIgnoringCase(m, PatModelNotFound) THEN ModelNotFoundMessage
            ELSE m ]

\* C3: a provider exception that carries a message is classified by
\* case-insensitive substring match in the order credential, quota, model not
\* found, and otherwise its message passes through unchanged.
C3_ClassificationInPriorityOrder ==
    \A i \in Invocations :
        (Settled(i) /\ response[i] \in MessageRejections) =>
            result[i] = Rejected(ErrorObject(ClaimedMessage[response[i]]))

C3_Witness ==
    /\ \E i \in Invocations :
         /\ Settled(i)
         /\ response[i].reason = ErrorObject(MsgQuotaAndPermission)
         /\ result[i].error.message.s = InvalidKeyMessage
    /\ \E i \in Invocations :
         /\ Settled(i)
         /\ response[i].reason = ErrorObject(MsgBlip)
         /\ result[i].error.message.s = MsgBlip

\* the provider call succeeded with a response whose text is no string
NonStringPayload(o) ==
    o.settled = "fulfilled" /\ o.value.t = "object" /\ o.value.text.t # "string"

\* C4: a successful provider call whose text payload is no string rejects with
\* the not-in-the-expected-text-format error, although the catch block
\* classifies that error too.
C4_NonStringPayloadRejects ==
    \A i \in Invocations :
        (Settled(i) /\ NonStringPayload(response[i])) =>
            result[i] = Rejected(ErrorObject(NotTextFormatMessage))

C4_Witness ==
    \E i \in Invocations :
        /\ Settled(i)
        /\ response[i].settled = "fulfilled"
        /\ response[i].value = [t |-> "object", text |-> Undefined]
        /\ result[i].status = "rejected"

\* C5: a provider rejection whose value has no message at all rejects with
\* the generic communication error.
C5_NoMessageIsGeneric ==
    \A i \in Invocations :
        (Settled(i) /\ response[i].settled = "rejected"
                    /\ response[i].reason.message = Undefined) =>
            result[i] = Rejected(ErrorObject(CommunicationMessage))

\* the provider call succeeded with a string text
StringPayloads ==
    { o \in ProviderOutcomes :
        o.settled = "fulfilled" /\ o.value.t = "object" /\ o.value.text.t = "string" }

\* r is str without its leading and trailing white space: a white-space prefix
\* and a white-space suffix are cut, nothing between them is changed, and what
\* is left neither starts nor ends with white space
IsTrimmed(r, str) ==
    \E a, b \in 0..Len(str) :
        /\ a + b <= Len(str)
        /\ r = SubSeq(str, a + 1, Len(str) - b)
        /\ \A k \in 1..a : str[k] \in WhiteSpace
        /\ \A k \in (Len(str) - b + 1)..Len(str) : str[k] \in WhiteSpace
        /\ (r = <<>> \/ (r[1] \notin WhiteSpace /\ r[Len(r)] \notin WhiteSpace))

\* the results the claim allows for each string payload
ClaimedTexts ==
    [ o \in StringPayloads |->
        LET str == o.value.text.s
        IN  { r \in { SubSeq(str, a, b) : a \in 1..(Len(str) + 1), b \in 0..Len(str) } :
                IsTrimmed(r, str) } ]

\* C6: a successful provider call with a string text resolves with that text,
\* leading and trailing white space removed and nothing else changed.
C6_ResolvesWithTrimmedText ==
    \A i \in Invocations :
        (Settled(i) /\ response[i] \in StringPayloads) =>
            /\ result[i].status = "resolved"
            /\ result[i].value \in ClaimedTexts[response[i]]

C6_Witness ==
    /\ \E i \in Invocations :
         /\ Settled(i)
         /\ response[i].value.text = StringValue(TextPadded)
         /\ result[i] = Resolved(TextPlain)
    /\ \E i \in Invocations :
         /\ Settled(i)
         /\ response[i].value.text = StringValue(TextInner)
         /\ result[i].status = "resolved"
         /\ Len(result[i].value) = 4

RECURSIVE SumCalls(_)
SumCalls(n) == IF n = 0 THEN 0 ELSE calls[n] + SumCalls(n - 1)

\* C7: an invocation calls generateContent once when the client is ready and
\* never otherwise, whatever the call's outcome; N invocations make at most N
\* provider calls.
C7_AtMostOneProviderCall ==
    /\ \A i \in Invocations :
         /\ calls[i] <= 1
         /\ pc[i] # "idle" => calls[i] = (IF Ready THEN 1 ELSE 0)
    /\ providerCalls = SumCalls(MaxCalls)
    /\ providerCalls <= Cardinality({ i \in Invocations : pc[i] # "idle" })

C7_Witness ==
    /\ Ready
    /\ \A i \in Invocations : Settled(i)
    /\ \E i \in Invocations : result[i].error.message.s = QuotaMessage
    /\ \E i \in Invocations : result[i].status = "resolved"
    /\ providerCalls = MaxCalls

\* the prompt sent for invocation i is the template around its own question
OwnPrompt(i) ==
    /\ Len(contents[i]) = Len(question[i]) + 2
    /\ contents[i][1] = PromptHead
    /\ contents[i][Len(contents[i])] = PromptTail
    /\ SubSeq(contents[i], 2, Len(contents[i]) - 1) = question[i]

C8_Independent ==
    /\ \A i \in Invocations : calls[i] > 0 => OwnPrompt(i)
    /\ \A i, j \in Invocations :
         (Settled(i) /\ Settled(j) /\ calls[i] > 0 /\ calls[j] > 0
            /\ response[i] = response[j]) =>
            (result[i] = result[j] /\ callLog[i] = callLog[j])

\* a step leaves every invocation that did not move as it was, and `ai` and
\* `apiKeyInitializationError` as module load left them
C8_StepLocal ==
    /\ \A j \in Invocations :
         pc'[j] = pc[j] =>
            /\ question'[j] = question[j]
            /\ contents'[j] = contents[j]
            /\ response'[j] = response[j]
            /\ result'[j] = result[j]
            /\ callLog'[j] = callLog[j]
            /\ calls'[j] = calls[j]
    /\ moduleState # "Uninitialized" =>
         UNCHANGED <<ai, apiKeyInitializationError, moduleState>>

\* C8: concurrent invocations do not interfere: each sends the prompt built
\* from its own question, settles by its own provider response alone, and
\* changes nothing another invocation reads, under every interleaving.
C8_ConcurrentCallsIndependent == []C8_Independent /\ [][C8_StepLocal]_vars

C8_Witness ==
    /\ pc[1] = "awaiting"
    /\ Settled(2)
    /\ question[1] # question[2]
    /\ result[2].status = "resolved"
    /\ contents[1] # contents[2]

\* C9 as stated: every rejected invocation emitted exactly one log entry.
C9_OneEntryPerRejection ==
    \A i \in Invocations :
        (Settled(i) /\ result[i].status = "rejected") => Len(callLog[i]) = 1

\* C9 as amended: an invocation that reached the provider call and
\* rejects has emitted exactly one console.error, its last entry, preceded by
\* one console.warn exactly when the failure is a non-string payload; an
\* invocation rejected by a guard, or resolved, has emitted nothing; a recorded
\* initialization error was logged once, by the module initializer.
C9_LogEntriesPerInvocation ==
    /\ \A i \in Invocations :
         Settled(i) =>
            IF result[i].status = "rejected" /\ calls[i] > 0
            THEN /\ callLog[i] # <<>>
                 /\ callLog[i][Len(callLog[i])].level = "error"
                 /\ Cardinality({ k \in DOMAIN callLog[i] : callLog[i][k].level = "error" }) = 1
                 /\ Len(callLog[i]) = (IF NonStringPayload(response[i]) THEN 2 ELSE 1)
                 /\ NonStringPayload(response[i]) => callLog[i][1].level = "warn"
            ELSE callLog[i] = <<>>
    /\ (moduleState # "Uninitialized" /\ apiKeyInitializationError # JsNull) =>
         (Len(initLog) = 1 /\ initLog[1].level = "error")

C9_Witness ==
    /\ \E i \in Invocations :
         Settled(i) /\ NonStringPayload(response[i]) /\ Len(callLog[i]) = 2
    /\ \E i \in Invocations :
         Settled(i) /\ response[i].reason = JsNull /\ Len(callLog[i]) = 1

\* the rejection the App last observed mentions "api key", letter case ignored
LastRejectionMentionsApiKey ==
    /\ fetch.pc = "settled"
    /\ fetch.result.status = "rejected"
    /\ ContainsIgnoringCase(fetch.result.error.message.s, PatApiKey)

C10_State ==
    /\ LastRejectionMentionsApiKey => apiKeyError
    /\ apiKeyError =>
         /\ ~FormRendered
         /\ ~ErrorBannerRendered
         /\ fetch.pc = "settled"
         /\ ~isLoading

C10_Step == apiKeyError => apiKeyError'

\* C10: once a request of the App rejects with a message mentioning "api key",
\* apiKeyError is true and stays true: the form is not offered, no request is
\* in flight or can be started, and the per-request error banner is not shown.
C10_ApiKeyErrorPersists == []C10_State /\ [][C10_Step]_vars

C10_Witness ==
    /\ apiKeyError
    /\ fetch.result.error.message.s = InvalidKeyMessage
    /\ share.kind # "none"

====
